---- MODULE Spec2Model ----
(***************************************************************************)
(* Model of scripts/flask_server.py: the in-memory account store, the      *)
(* settings record, the sliding-window rate limiter and the handlers of    *)
(* the HTTP endpoints.  A handler runs to completion before the next       *)
(* request is taken (one worker, one request at a time); generate_account  *)
(* is followed one loop iteration at a time, and the clock may advance     *)
(* between iterations.  The actions take the sets their inputs are drawn   *)
(* from as parameters; the specifications at the end differ in those sets  *)
(* and in the handlers they take requests for.  The last specification,    *)
(* SpecConc, has two threads handle generate and clear requests with their *)
(* accesses to the accounts and to generation_count interleaved.           *)
(***************************************************************************)
EXTENDS Integers, Sequences, FiniteSets, TLC

(* ------------------------------ bounds --------------------------------- *)
\* the clock advances in steps of TickStep seconds, up to MaxTime
TickStep == 60
MaxTime == 70
\* the finer clock step of the rate limiter's specification
FineStep == 30
\* generate requests are taken only while fewer records than this are stored
MaxAccounts == 2
\* largest balance the backend reports
MaxGems == 1

(* ------------------------- program constants --------------------------- *)
max_requests == 5
window_seconds == 60
max_attempts == 10
password == "testuad12334"
\* Python's None (JSON null); the integers of the model are naturals
None == -1

(* --------------------------- input domains ----------------------------- *)
Clients == {"10.0.0.1", "10.0.0.2"}

\* values generate_random_email can return
Emails == {"test100000@example.com", "test9999999@example.com"}

\* what requests.post(...).json() can yield for the signup call
SignupResults ==
  { [status |-> "timeout"],
    [status |-> "error", msg |-> "Connection aborted"],
    [status |-> "ok", json |-> [error |-> [message |-> "EMAIL_EXISTS"]]],
    [status |-> "ok", json |-> [error |-> [message |-> "WEAK_PASSWORD"]]],
    [status |-> "ok", json |-> [idToken |-> "idt"]],
    [status |-> "ok", json |-> [idToken |-> "idt", localId |-> "uid"]] }

\* what the init_data call of generate_account can yield
InitResults ==
  { [status |-> "timeout"],
    [status |-> "ok", json |-> [code |-> 0]],
    [status |-> "ok", json |-> [code |-> 1,
                                data |-> [session_token |-> "sess", gems |-> 1]]] }

\* the outcomes of the two calls kept where the other handlers vary too
FewSignupResults ==
  { r \in SignupResults : r.status = "ok" /\ "localId" \in DOMAIN r.json }
FewInitResults == { r \in InitResults : r.status = "ok" }
OneEmail == {"test100000@example.com"}
OneClient == {"10.0.0.1"}
\* the generation calls as the rate limiter's specification has them
RateSignupResults ==
  { r \in FewSignupResults : r.status = "ok" /\ "localId" \in DOMAIN r.json }
RateInitResults == { r \in InitResults : r.status = "ok" }

\* what the init_data call of get_balance can yield
BalanceResults ==
  { [status |-> "timeout"],
    [status |-> "error", msg |-> "Connection aborted"],
    [status |-> "ok", json |-> [code |-> 0]],
    [status |-> "ok", json |-> [code |-> 1, data |-> [uid |-> "u"]]] }
  \cup { [status |-> "ok", json |-> [code |-> 1, data |-> [gems |-> g]]] :
           g \in (0..MaxGems) \cup {None} }

\* JSON bodies of POST /api/settings
SettingsBodies ==
  { [other |-> 0] }
  \cup { [main_session_token |-> t] : t \in {"", "tok"} }
  \cup { [local_id |-> l] : l \in {"", "lid"} }
  \cup { [main_session_token |-> "tok", local_id |-> "lid"] }
LocalIdBodies == { b \in SettingsBodies : "main_session_token" \notin DOMAIN b }

(* ------------------------------ state ---------------------------------- *)
VARIABLES
  accounts,     \* the account list, newest first
  settings,     \* the settings dict
  rate_limits,  \* client address -> timestamps of its admitted calls
  now,          \* time.time()
  pc,           \* "idle", or "loop" while generate_account iterates
  attempt,      \* loop variable of generate_account
  email,        \* email of the current iteration of generate_account
  calls,        \* outbound calls made by the request being handled
  init_json,    \* request body of the exchange call of the current iteration
  admitted,     \* per client, admission times within the trailing window
  before,       \* the account list and the count when the request was admitted
  exits,        \* how the iterations of the current generate_account ended,
                \* and what the signup call of the last one yielded
  resp,         \* the response of the request handled last
  threads,      \* with threaded request handling: where each thread is
  overlapped    \* whether a thread accessed the accounts or the count while
                \* another one was between two of its accesses

vars == <<accounts, settings, rate_limits, now, pc, attempt, email, calls,
          init_json, admitted, before, exits, resp, threads, overlapped>>

\* the request threads of the threaded server
Threads == {1, 2}
\* a thread that handles no request: its position, its loop variable, the
\* record it is about to insert and the generation_count it has read
IdleThread == [pc |-> "idle", attempt |-> 0, rec |-> << >>, reg |-> 0]
concvars == <<threads, overlapped>>
\* what the handlers leave alone when requests are followed access by access
seqvars == <<now, pc, attempt, email, calls, init_json, admitted, before,
             exits, resp>>

NoCalls == [signup |-> 0, exchange |-> 0, balance |-> 0]
NoJson == [sent |-> FALSE]
NoBefore == [taken |-> FALSE]
NoSignup == [status |-> "none"]
NoExits == [last |-> "none", all_exist |-> FALSE, err |-> "", signup |-> NoSignup]
Snapshot == [taken |-> TRUE, accounts |-> accounts,
             generation_count |-> settings.generation_count]

\* dict.get(k, default)
Get(d, k, default) == IF k \in DOMAIN d THEN d[k] ELSE default

\* datetime.now().strftime('%H:%M:%S')
strftime(t) == <<(t \div 3600) % 24, (t \div 60) % 60, t % 60>>

Init ==
  /\ accounts = << >>
  /\ settings = [main_session_token |-> "", local_id |-> "",
                 total_gems |-> 0, generation_count |-> 0]
  /\ rate_limits = [c \in {} |-> << >>]
  /\ now = 0
  /\ pc = "idle"
  /\ attempt = 0
  /\ email = ""
  /\ calls = NoCalls
  /\ init_json = NoJson
  /\ admitted = [c \in Clients |-> << >>]
  /\ before = NoBefore
  /\ exits = NoExits
  /\ resp = [op |-> "none", status |-> 0]
  /\ threads = [t \in Threads |-> IdleThread]
  /\ overlapped = FALSE

(* --------------------------- rate limiter ------------------------------ *)
\* lines 79-85 without the filter
CleanOldNever(rl, ip, t) ==
  [c \in DOMAIN rl \cup {ip} |-> IF c \in DOMAIN rl THEN rl[c] ELSE << >>]

\* lines 79-85 keeping the entries that are exactly window_seconds old
CleanOldInclusive(rl, ip, t) ==
  [c \in DOMAIN rl \cup {ip} |->
     IF c = ip
       THEN IF ip \in DOMAIN rl
              THEN SelectSeq(rl[ip], LAMBDA x : t - x <= window_seconds)
              ELSE << >>
       ELSE rl[c]]

\* lines 79-85: drop the entries of the client that left the window
CleanOld(rl, ip, t) ==
  [c \in DOMAIN rl \cup {ip} |->
     IF c = ip
       THEN IF ip \in DOMAIN rl
              THEN SelectSeq(rl[ip], LAMBDA x : t - x < window_seconds)
              ELSE << >>
       ELSE rl[c]]

\* line 88 with > for >=
ExceededAbove(rl, ip) == Len(rl[ip]) > max_requests

\* line 88
Exceeded(rl, ip) == Len(rl[ip]) >= max_requests

\* line 95
Record(rl, ip, t) == [rl EXCEPT ![ip] = Append(@, t)]

\* lines 90-93
RateLimitResponse ==
  [op |-> "generate", status |-> 429,
   body |-> [error |-> "Rate limit exceeded", retry_after |-> window_seconds]]

\* the admission times of a sequence that are still within the window at t
InWindow(ts, t) == SelectSeq(ts, LAMBDA x : t - x < window_seconds)

(* -------------------------- generate_account --------------------------- *)
\* line 228 never matching
EmailExistsRaises(signup_data) == FALSE

\* line 228
EmailExists(signup_data) ==
  Get(Get(signup_data, "error", [none |-> 0]), "message", "") = "EMAIL_EXISTS"

\* line 232
HasIdToken(signup_data) ==
  "idToken" \in DOMAIN signup_data /\ signup_data.idToken # ""

\* line 234 without settings['local_id']
LocalIdOfSignup(st, signup_data) == Get(signup_data, "localId", "")

\* line 234
LocalId(st, signup_data) ==
  IF st.local_id # "" THEN st.local_id ELSE Get(signup_data, "localId", "")

\* lines 243-248
InitRequest(st, signup_data) ==
  [sent |-> TRUE, token |-> signup_data.idToken,
   code |-> LocalId(st, signup_data), login_type |-> 0, current_uid |-> ""]

\* line 254
InitOk(init_data) == Get(init_data, "code", 0) = 1 /\ "data" \in DOMAIN init_data

\* lines 255-262
NewAccount(em, init_data, t) ==
  [email |-> em, password |-> password,
   sessionToken |-> Get(init_data.data, "session_token", ""),
   gems |-> Get(init_data.data, "gems", 0),
   timestamp |-> strftime(t), status |-> "success"]

\* lines 284-290 with a fixed description for str(e)
FailedAccountGeneric(em, err, t) ==
  [email |-> em, password |-> password, timestamp |-> strftime(t),
   status |-> "failed", error |-> "Generation failed"]

\* lines 284-290
FailedAccount(em, err, t) ==
  [email |-> em, password |-> password, timestamp |-> strftime(t),
   status |-> "failed", error |-> err]

\* accounts.append(rec) for accounts.insert(0, rec)
InsertLast(accs, rec) == accs \o <<rec>>

\* line 264 / line 291
InsertHead(accs, rec) == <<rec>> \o accs

\* line 265 adding 2
IncrementTwice(st) == [st EXCEPT !.generation_count = @ + 2]

\* line 265
Increment(st) == [st EXCEPT !.generation_count = @ + 1]

\* line 275
SignupError(signup_data) ==
  Get(Get(signup_data, "error", [none |-> 0]), "message", "Signup failed")

\* the identity provider answered that the email is taken
ReportsEmailExists(sres) ==
  /\ sres.status = "ok"
  /\ "error" \in DOMAIN sres.json
  /\ sres.json.error.message = "EMAIL_EXISTS"

\* lines 228-236: the exchange call is reached
ReachesInit(sres) ==
  sres.status = "ok" /\ ~EmailExists(sres.json) /\ HasIdToken(sres.json)

\* One iteration of the loop body, lines 205-276, as the way it leaves the
\* try block: "return" (success), "continue" (collision), "timeout"
\* (requests.Timeout) or "raise" (any other exception), with the exchange
\* request it sent, if any.
Iteration(st, sres, ires) ==
  IF sres.status = "timeout" THEN [exit |-> "timeout", req |-> NoJson]
  ELSE IF sres.status = "error"
    THEN [exit |-> "raise", err |-> sres.msg, req |-> NoJson]
  ELSE IF EmailExists(sres.json) THEN [exit |-> "continue", req |-> NoJson]
  ELSE IF ~HasIdToken(sres.json)
    THEN [exit |-> "raise", err |-> SignupError(sres.json), req |-> NoJson]
  ELSE LET req == InitRequest(st, sres.json) IN
    IF ires.status = "timeout" THEN [exit |-> "timeout", req |-> req]
    ELSE IF ires.status = "error"
      THEN [exit |-> "raise", err |-> ires.msg, req |-> req]
    ELSE IF InitOk(ires.json)
      THEN [exit |-> "return", data |-> ires.json, req |-> req]
    ELSE [exit |-> "raise", err |-> "Failed to initialize account", req |-> req]

\* line 283 comparing with max_attempts
LastAttemptOffByOne(a) == a = max_attempts

\* line 283
LastAttempt(a) == a = max_attempts - 1

\* line 204 with one iteration more than range(max_attempts) has
MoreAttemptsOneMore(a) == a + 1 <= max_attempts

\* line 204: range(max_attempts) has a value after a
MoreAttempts(a) == a + 1 < max_attempts

\* lines 197-199 with the wrapper of lines 75-96: the request arrives
generate_account(ip) ==
  /\ pc = "idle"
  /\ LET cleaned == CleanOld(rate_limits, ip, now) IN
       IF Exceeded(cleaned, ip)
         THEN /\ rate_limits' = cleaned
              /\ resp' = RateLimitResponse
              /\ calls' = NoCalls
              /\ init_json' = NoJson
              /\ before' = NoBefore
              /\ exits' = NoExits
              /\ UNCHANGED <<accounts, settings, now, pc, attempt, email,
                             admitted>>
         ELSE /\ Len(accounts) < MaxAccounts
              /\ rate_limits' = Record(cleaned, ip, now)
              /\ admitted' = [admitted EXCEPT ![ip] = Append(@, now)]
              /\ pc' = "loop"
              /\ attempt' = 0
              /\ calls' = NoCalls
              /\ init_json' = NoJson
              /\ resp' = [op |-> "generate", status |-> 0,
                          pruned |-> (IF ip \in DOMAIN rate_limits
                                        THEN Len(rate_limits[ip]) ELSE 0)
                                     - Len(cleaned[ip])]
              /\ before' = Snapshot
              /\ exits' = [NoExits EXCEPT !.all_exist = TRUE]
              /\ UNCHANGED <<accounts, settings, now, email>>
  /\ UNCHANGED concvars

\* lines 204-298: one iteration of the loop, and the return after the loop
generate_attempt(emails, signups, inits) ==
  /\ pc = "loop"
  /\ \E em \in emails, sres \in signups :
     \E ires \in IF ReachesInit(sres) THEN inits ELSE {[status |-> "none"]} :
       LET it == Iteration(settings, sres, ires) IN
       /\ email' = em
       /\ init_json' = it.req
       /\ exits' = [last |-> it.exit,
                    all_exist |-> exits.all_exist /\ ReportsEmailExists(sres),
                    err |-> IF it.exit = "raise" THEN it.err ELSE "",
                    signup |-> sres]
       /\ calls' = [calls EXCEPT !.signup = @ + 1,
                                 !.exchange = @ + (IF it.req.sent THEN 1 ELSE 0)]
       /\ IF it.exit = "return"
            THEN LET new_account == NewAccount(em, it.data, now) IN
                 /\ accounts' = InsertHead(accounts, new_account)
                 /\ settings' = Increment(settings)
                 /\ resp' = [op |-> "generate", status |-> 200,
                             body |-> [success |-> TRUE, account |-> new_account]]
                 /\ pc' = "idle"
                 /\ UNCHANGED attempt
          ELSE IF it.exit = "raise" /\ LastAttempt(attempt)
            THEN LET failed_account == FailedAccount(em, it.err, now) IN
                 /\ accounts' = InsertHead(accounts, failed_account)
                 /\ resp' = [op |-> "generate", status |-> 200,
                             body |-> [success |-> FALSE, error |-> it.err,
                                       account |-> failed_account]]
                 /\ pc' = "idle"
                 /\ UNCHANGED <<settings, attempt>>
          ELSE IF MoreAttempts(attempt)
            THEN /\ attempt' = attempt + 1
                 /\ UNCHANGED <<accounts, settings, pc, resp>>
          ELSE /\ resp' = [op |-> "generate", status |-> 200,
                           body |-> [success |-> FALSE,
                                     error |-> "Max attempts reached"]]
               /\ pc' = "idle"
               /\ UNCHANGED <<accounts, settings, attempt>>
  /\ UNCHANGED <<rate_limits, now, admitted, before>>
  /\ UNCHANGED concvars

(* ---------------------------- handle_settings -------------------------- *)
\* lines 142-145 assigning data.get(key, '') whether the key is there or not
MergeReplace(st, data) ==
  [st EXCEPT !.main_session_token = Get(data, "main_session_token", ""),
             !.local_id = Get(data, "local_id", "")]

\* lines 142-145: merge the keys present in the body
Merge(st, data) ==
  [st EXCEPT !.main_session_token = Get(data, "main_session_token", @),
             !.local_id = Get(data, "local_id", @)]

\* lines 140-147
handle_settings_post(bodies) ==
  /\ pc = "idle"
  /\ \E data \in bodies :
       /\ settings' = Merge(settings, data)
       /\ resp' = [op |-> "settings_post", status |-> 200,
                   body |-> [success |-> TRUE, settings |-> settings'],
                   request |-> data]
  /\ calls' = NoCalls
  /\ init_json' = NoJson
  /\ before' = NoBefore
  /\ exits' = NoExits
  /\ UNCHANGED <<accounts, rate_limits, now, pc, attempt, email, admitted>>
  /\ UNCHANGED concvars

\* line 148
handle_settings_get ==
  /\ pc = "idle"
  /\ resp' = [op |-> "settings_get", status |-> 200, body |-> settings]
  /\ calls' = NoCalls
  /\ init_json' = NoJson
  /\ before' = NoBefore
  /\ exits' = NoExits
  /\ UNCHANGED <<accounts, settings, rate_limits, now, pc, attempt, email,
                 admitted>>
  /\ UNCHANGED concvars

(* ------------------------------ get_accounts --------------------------- *)
\* lines 156-157: len([a for a in accounts if a['status'] == s])
CountStatus(accs, s) == Len(SelectSeq(accs, LAMBDA a : a.status = s))

\* lines 153-160
get_accounts ==
  /\ pc = "idle"
  /\ resp' = [op |-> "accounts", status |-> 200,
              body |-> [accounts |-> accounts,
                        stats |-> [successful |-> CountStatus(accounts, "success"),
                                   failed |-> CountStatus(accounts, "failed"),
                                   total |-> settings.generation_count]]]
  /\ calls' = NoCalls
  /\ init_json' = NoJson
  /\ before' = NoBefore
  /\ exits' = NoExits
  /\ UNCHANGED <<accounts, settings, rate_limits, now, pc, attempt, email,
                 admitted>>
  /\ UNCHANGED concvars

(* ------------------------------ get_balance ---------------------------- *)
\* line 165 without the check
NoTokenNever(st) == FALSE

\* line 165
NoToken(st) == st.main_session_token = ""

\* line 180
BalanceOk(data) == Get(data, "code", 0) = 1 /\ "data" \in DOMAIN data

\* lines 186-187 raise TypeError when an operand of > is None
CompareRaises(new_gems, old_gems) == new_gems = None \/ old_gems = None

\* lines 184-188
BalanceBody(new_gems, old_gems) ==
  [gems |-> new_gems, increased |-> new_gems > old_gems,
   diff |-> IF new_gems > old_gems THEN new_gems - old_gems ELSE 0]

\* lines 168-195: the settings and the response body after the outbound call
\* ended in res
Poll(st, res) ==
  IF res.status = "timeout"
    THEN [st |-> st, body |-> [gems |-> st.total_gems, error |-> "Request timed out"]]
  ELSE IF res.status = "error"
    THEN [st |-> st, body |-> [gems |-> st.total_gems, error |-> res.msg]]
  ELSE IF ~BalanceOk(res.json)
    THEN [st |-> st, body |-> [gems |-> st.total_gems, error |-> "Invalid response"]]
  ELSE LET new_gems == Get(res.json.data, "gems", 0)
           old_gems == st.total_gems
           st2 == [st EXCEPT !.total_gems = new_gems] IN
    IF CompareRaises(new_gems, old_gems)
      THEN [st |-> st2,
            body |-> [gems |-> st2.total_gems,
                      error |-> "'>' not supported between instances"]]
      ELSE [st |-> st2, body |-> BalanceBody(new_gems, old_gems)]

\* lines 163-195
get_balance(results) ==
  /\ pc = "idle"
  /\ IF NoToken(settings)
       THEN /\ resp' = [op |-> "balance", status |-> 200,
                        body |-> [error |-> "No session token configured",
                                  gems |-> 0]]
            /\ calls' = NoCalls
            /\ UNCHANGED settings
       ELSE \E res \in results :
              LET r == Poll(settings, res) IN
              /\ settings' = r.st
              /\ resp' = [op |-> "balance", status |-> 200, body |-> r.body,
                          result |-> res]
              /\ calls' = [NoCalls EXCEPT !.balance = 1]
  /\ init_json' = NoJson
  /\ before' = NoBefore
  /\ exits' = NoExits
  /\ UNCHANGED <<accounts, rate_limits, now, pc, attempt, email, admitted>>
  /\ UNCHANGED concvars

(* ---------------------------- export_accounts -------------------------- *)
\* line 303 without the filter
AllAccounts(accs) == accs

\* line 303
SuccessAccounts(accs) == SelectSeq(accs, LAMBDA a : a.status = "success")

\* lines 307-311: the lines rendered for one account
AccountLines(acc) ==
  << <<"Email: ", acc.email>>,
     <<"Password: ", acc.password>>,
     <<"Session Token: ", Get(acc, "sessionToken", "N/A")>>,
     <<"Gems: ", Get(acc, "gems", 0)>>,
     <<"---">> >>

\* lines 305-311
RECURSIVE Content(_)
Content(accs) ==
  IF accs = << >> THEN << >>
  ELSE AccountLines(Head(accs)) \o Content(Tail(accs))

\* lines 303-316
ExportBody(accs) ==
  [content |-> Content(SuccessAccounts(accs)),
   count |-> Len(SuccessAccounts(accs))]

export_accounts ==
  /\ pc = "idle"
  /\ resp' = [op |-> "export", status |-> 200, body |-> ExportBody(accounts)]
  /\ calls' = NoCalls
  /\ init_json' = NoJson
  /\ before' = NoBefore
  /\ exits' = NoExits
  /\ UNCHANGED <<accounts, settings, rate_limits, now, pc, attempt, email,
                 admitted>>
  /\ UNCHANGED concvars

(* ----------------------------- clear_accounts -------------------------- *)
\* line 322 without the global statement of line 321
ClearedLocal(accs) == accs

\* line 322
Cleared(accs) == << >>

\* clear_accounts without line 323
KeepCount(st) == st

\* line 323
ResetCount(st) == [st EXCEPT !.generation_count = 0]

\* lines 319-325
clear_accounts ==
  /\ pc = "idle"
  /\ accounts' = Cleared(accounts)
  /\ settings' = ResetCount(settings)
  /\ resp' = [op |-> "clear", status |-> 200, body |-> [success |-> TRUE]]
  /\ calls' = NoCalls
  /\ init_json' = NoJson
  /\ before' = Snapshot
  /\ exits' = NoExits
  /\ UNCHANGED <<rate_limits, now, pc, attempt, email, admitted>>
  /\ UNCHANGED concvars

(* --------------------------------- clock ------------------------------- *)
\* time.time() advances; admissions that left the window are forgotten
Tick(step) ==
  /\ now + step <= MaxTime
  /\ now' = now + step
  /\ admitted' = [c \in Clients |-> InWindow(admitted[c], now')]
  /\ UNCHANGED <<accounts, settings, rate_limits, pc, attempt, email, calls,
                 init_json, before, exits, resp>>
  /\ UNCHANGED concvars

(* --------------------------- specifications --------------------------- *)
\* every handler, one client, the main outcomes of the generation calls
Next ==
  \/ \E ip \in OneClient : generate_account(ip)
  \/ generate_attempt(OneEmail, FewSignupResults, FewInitResults)
  \/ handle_settings_post(SettingsBodies)
  \/ handle_settings_get
  \/ get_accounts
  \/ get_balance(BalanceResults)
  \/ export_accounts
  \/ clear_accounts
  \/ Tick(TickStep)

Spec == Init /\ [][Next]_vars

\* the generation workflow with every outcome of its two calls, within one
\* window of the rate limiter; no balance polls and no session token
NextGen ==
  \/ \E ip \in OneClient : generate_account(ip)
  \/ generate_attempt(Emails, SignupResults, InitResults)
  \/ handle_settings_post(LocalIdBodies)
  \/ export_accounts
  \/ clear_accounts

SpecGen == Init /\ [][NextGen]_vars

\* the rate limiter with two clients and a finer clock
NextRate ==
  \/ \E ip \in Clients : generate_account(ip)
  \/ generate_attempt(OneEmail, RateSignupResults, RateInitResults)
  \/ clear_accounts
  \/ Tick(FineStep)

SpecRate == Init /\ [][NextRate]_vars

(* ------------------------- threaded handling -------------------------- *)
\* The development server handles each request in a thread of its own, and
\* nothing orders the accesses of two threads to the accounts and to
\* settings['generation_count'].  Here one step is one such access.

\* line 265 storing the value read plus 2
WriteCountTwice(st, reg) == [st EXCEPT !.generation_count = reg + 2]

\* line 265, the store of settings['generation_count'] += 1
WriteCount(st, reg) == [st EXCEPT !.generation_count = reg + 1]

\* the thread is between two of its accesses: after the insert of line 264
\* and before the store of line 265, or after line 322 and before line 323
InRegion(th) == th.pc \in {"read", "write", "reset"}

\* thread t makes an access while another thread is between two of its own
Overlaps(t) == \E u \in Threads \ {t} : InRegion(threads[u])

\* lines 75-96 and 197-203: a thread takes a generate request
conc_generate(t, ip) ==
  /\ threads[t].pc = "idle"
  /\ LET cleaned == CleanOld(rate_limits, ip, now) IN
       IF Exceeded(cleaned, ip)
         THEN /\ rate_limits' = cleaned
              /\ UNCHANGED threads
         ELSE /\ Len(accounts) < MaxAccounts
              /\ rate_limits' = Record(cleaned, ip, now)
              /\ threads' = [threads EXCEPT ![t] = [IdleThread EXCEPT !.pc = "loop"]]
  /\ UNCHANGED <<accounts, settings, overlapped>>
  /\ UNCHANGED seqvars

\* lines 204-262 and 278-290, 298: one iteration up to the record it builds
conc_iteration(t, emails, signups, inits) ==
  /\ threads[t].pc = "loop"
  /\ \E em \in emails, sres \in signups :
     \E ires \in IF ReachesInit(sres) THEN inits ELSE {[status |-> "none"]} :
       LET it == Iteration(settings, sres, ires)
           th == threads[t] IN
       threads' = [threads EXCEPT ![t] =
         IF it.exit = "return"
           THEN [th EXCEPT !.pc = "insert",
                           !.rec = <<NewAccount(em, it.data, now)>>]
         ELSE IF it.exit = "raise" /\ LastAttempt(th.attempt)
           THEN [th EXCEPT !.pc = "insert",
                           !.rec = <<FailedAccount(em, it.err, now)>>]
         ELSE IF MoreAttempts(th.attempt)
           THEN [th EXCEPT !.attempt = @ + 1]
         ELSE IdleThread]
  /\ UNCHANGED <<accounts, settings, rate_limits, overlapped>>
  /\ UNCHANGED seqvars

\* line 264 / line 291
conc_insert(t) ==
  /\ threads[t].pc = "insert"
  /\ accounts' = InsertHead(accounts, threads[t].rec[1])
  /\ threads' = [threads EXCEPT ![t] =
       IF threads[t].rec[1].status = "success"
         THEN [@ EXCEPT !.pc = "read"]
         ELSE IdleThread]
  /\ overlapped' = (overlapped \/ Overlaps(t))
  /\ UNCHANGED <<settings, rate_limits>>
  /\ UNCHANGED seqvars

\* line 265, the load of settings['generation_count'] += 1
conc_read(t) ==
  /\ threads[t].pc = "read"
  /\ threads' = [threads EXCEPT ![t] =
       [@ EXCEPT !.pc = "write", !.reg = settings.generation_count]]
  /\ overlapped' = (overlapped \/ Overlaps(t))
  /\ UNCHANGED <<accounts, settings, rate_limits>>
  /\ UNCHANGED seqvars

\* line 265, the store, and the return of lines 267-271
conc_write(t) ==
  /\ threads[t].pc = "write"
  /\ settings' = WriteCount(settings, threads[t].reg)
  /\ threads' = [threads EXCEPT ![t] = IdleThread]
  /\ overlapped' = (overlapped \/ Overlaps(t))
  /\ UNCHANGED <<accounts, rate_limits>>
  /\ UNCHANGED seqvars

\* lines 319-322: a thread takes a clear request and empties the list
conc_clear(t) ==
  /\ threads[t].pc = "idle"
  /\ accounts' = Cleared(accounts)
  /\ threads' = [threads EXCEPT ![t] = [IdleThread EXCEPT !.pc = "reset"]]
  /\ overlapped' = (overlapped \/ Overlaps(t))
  /\ UNCHANGED <<settings, rate_limits>>
  /\ UNCHANGED seqvars

\* lines 323-325
conc_reset(t) ==
  /\ threads[t].pc = "reset"
  /\ settings' = ResetCount(settings)
  /\ threads' = [threads EXCEPT ![t] = IdleThread]
  /\ overlapped' = (overlapped \/ Overlaps(t))
  /\ UNCHANGED <<accounts, rate_limits>>
  /\ UNCHANGED seqvars

\* generate and clear requests handled by two threads, access by access
NextConc ==
  \E t \in Threads :
    \/ \E ip \in OneClient : conc_generate(t, ip)
    \/ conc_iteration(t, OneEmail, RateSignupResults, RateInitResults)
    \/ conc_insert(t)
    \/ conc_read(t)
    \/ conc_write(t)
    \/ conc_clear(t)
    \/ conc_reset(t)

SpecConc == Init /\ [][NextConc]_vars

(* ------------------------------- claims -------------------------------- *)
\* a generate_account invocation has returned and nothing was handled since
Returned == pc = "idle" /\ resp.op = "generate" /\ resp.status = 200

\* C1: when attempts 1..N-1 fail and attempt N signs up and exchanges
\* successfully (N in 1..10), the invocation has inserted exactly one record,
\* of status success, at the head of the account list and nothing else, has
\* increased generation_count by exactly 1, and has made exactly N attempts.
C1_SuccessPrependsOne ==
  (Returned /\ exits.last = "return") =>
     /\ resp.body.success
     /\ accounts = <<resp.body.account>> \o before.accounts
     /\ Head(accounts).status = "success"
     /\ settings.generation_count = before.generation_count + 1
     /\ calls.signup = attempt + 1
     /\ calls.signup \in 1..max_attempts

C1_Witness ==
  /\ Returned /\ exits.last = "return"
  /\ calls.signup = max_attempts
  /\ before.accounts # << >>

\* C2: when signup reports "email exists" on all 10 attempts, the invocation
\* returns the generic "Max attempts reached" failure, the account list and
\* generation_count are as they were, and no exchange call was made.
C2_AllCollisions ==
  (Returned /\ exits.all_exist /\ calls.signup = max_attempts) =>
     /\ resp.body = [success |-> FALSE, error |-> "Max attempts reached"]
     /\ accounts = before.accounts
     /\ settings.generation_count = before.generation_count
     /\ calls.exchange = 0

C2_Witness ==
  /\ Returned /\ exits.all_exist /\ calls.signup = max_attempts
  /\ before.accounts # << >>

\* C3: with requests handled one at a time, generation_count equals the
\* number of records of status success in the account list.
C3_CountMatchesSuccesses ==
  settings.generation_count =
    Cardinality({i \in 1..Len(accounts) : accounts[i].status = "success"})

C3_Witness ==
  /\ \E i \in 1..Len(accounts) : accounts[i].status = "success"
  /\ \E i \in 1..Len(accounts) : accounts[i].status = "failed"
  /\ resp.op = "balance"

\* C4: a clear leaves the account list empty and generation_count 0, and a
\* clear that follows a clear immediately leaves the state as the first did.
C4_ClearIdempotent ==
  [][clear_accounts =>
       /\ accounts' = << >>
       /\ settings'.generation_count = 0
       /\ (resp.op = "clear" =>
             /\ accounts' = accounts
             /\ settings' = settings
             /\ rate_limits' = rate_limits
             /\ resp' = resp)]_vars

C4_Witness ==
  /\ resp.op = "clear"
  /\ before.taken /\ Len(before.accounts) = MaxAccounts
  /\ before.generation_count > 0

\* C5: a generate call of a client that already has 5 calls admitted within
\* the trailing 60 seconds is rejected with status 429 and retry_after 60,
\* the window size, and the generation workflow does not run.
C5_SixthCallRejected ==
  [][\A ip \in Clients :
       (generate_account(ip) /\ Len(admitted[ip]) >= 5) =>
          /\ resp'.status = 429
          /\ resp'.body.retry_after = 60
          /\ resp'.body.retry_after = window_seconds
          /\ pc' = "idle"
          /\ calls' = NoCalls
          /\ UNCHANGED <<accounts, settings, admitted>>]_vars

C5_Witness ==
  /\ resp.status = 429
  /\ now = FineStep
  /\ \E ip \in Clients :
       /\ Len(admitted[ip]) = 5
       /\ admitted[ip][1] = 0
       /\ admitted[ip][5] = now

\* C6: the export output has exactly one "Email:" line for each record of
\* status success, in the order of the list, none for a failed record, and
\* the count it reports is the number of success records.
C6_ExportEmailLines ==
  resp.op = "export" =>
    LET emailLines == SelectSeq(resp.body.content, LAMBDA l : l[1] = "Email: ")
        succ == {i \in 1..Len(accounts) : accounts[i].status = "success"}
    IN /\ Len(emailLines) = Cardinality(succ)
       /\ resp.body.count = Cardinality(succ)
       /\ \A i \in succ :
            emailLines[Cardinality({j \in succ : j <= i})][2] = accounts[i].email

C6_Witness ==
  /\ resp.op = "export"
  /\ Len(accounts) = 2
  /\ accounts[1].status = "failed"
  /\ accounts[2].status = "success"

\* C7: a balance poll with an empty main_session_token answers gems 0 with
\* the annotation "No session token configured", makes no outbound call,
\* does not raise, and changes neither total_gems nor any other state.
C7_PollWithoutToken ==
  [][(settings.main_session_token = "" /\ get_balance(BalanceResults)) =>
       /\ resp'.status = 200
       /\ resp'.body = [error |-> "No session token configured", gems |-> 0]
       /\ calls'.balance = 0
       /\ UNCHANGED <<accounts, settings, rate_limits, now, pc>>]_vars

C7_Witness ==
  /\ resp.op = "balance"
  /\ resp.body = [error |-> "No session token configured", gems |-> 0]
  /\ settings.main_session_token = ""
  /\ settings.total_gems = 1
  /\ accounts # << >>

\* C8 as stated: every generate invocation that runs to completion, ending
\* in success or in exhaustion, has inserted exactly one record at the head.
C8_OneRecordPerInvocation ==
  Returned =>
     /\ Len(accounts) = Len(before.accounts) + 1
     /\ Tail(accounts) = before.accounts

\* C8 as amended: a completed generate invocation has inserted at most one
\* record, at the head: exactly one when it ended in success or when its
\* final attempt raised a failure other than a timeout, and none when its
\* final attempt ended in a collision or a timeout.
C8_AtMostOneRecord ==
  Returned =>
     /\ exits.last \in {"return", "raise"} =>
          /\ "account" \in DOMAIN resp.body
          /\ accounts = <<resp.body.account>> \o before.accounts
     /\ exits.last \in {"continue", "timeout"} =>
          /\ accounts = before.accounts
          /\ calls.signup = max_attempts
          /\ resp.body = [success |-> FALSE, error |-> "Max attempts reached"]

C8_Witness ==
  /\ Returned
  /\ exits.last = "timeout"
  /\ before.accounts # << >>

\* C9: a balance poll with a token that ends in a timeout or another failure
\* answers with the total_gems of before the poll and an error annotation,
\* does not raise, and leaves total_gems unchanged.
C9_FailedPollKeepsTotal ==
  [][(get_balance(BalanceResults) /\ settings.main_session_token # ""
        /\ "error" \in DOMAIN resp'.body) =>
       /\ resp'.status = 200
       /\ resp'.body.gems = settings.total_gems
       /\ settings'.total_gems = settings.total_gems]_vars

\* C10: a record in the account list never changes; generate only inserts
\* in front of the records present, whose order stays; records leave the
\* list only through a clear, all at once.
C10_RecordsImmutable ==
  [][\/ accounts' = accounts
     \/ clear_accounts /\ accounts' = << >>
     \/ /\ pc = "loop"
        /\ Len(accounts') = Len(accounts) + 1
        /\ Tail(accounts') = accounts]_vars

C10_Witness ==
  /\ Returned
  /\ Len(accounts) = 2
  /\ accounts[1] # accounts[2]
  /\ accounts = <<resp.body.account>> \o before.accounts

\* C11: main_session_token and local_id change only in a settings update,
\* and only to the value of a key present in its body; total_gems changes
\* only in a balance poll; generation_count changes only by +1 in a generate
\* that succeeds and to 0 in a clear.
C11_FieldsChangeInTheirOwnOperation ==
  [][/\ settings'.main_session_token # settings.main_session_token =>
          /\ handle_settings_post(SettingsBodies)
          /\ "main_session_token" \in DOMAIN resp'.request
          /\ settings'.main_session_token = resp'.request.main_session_token
     /\ settings'.local_id # settings.local_id =>
          /\ handle_settings_post(SettingsBodies)
          /\ "local_id" \in DOMAIN resp'.request
          /\ settings'.local_id = resp'.request.local_id
     /\ settings'.total_gems # settings.total_gems =>
          get_balance(BalanceResults)
     /\ settings'.generation_count # settings.generation_count =>
          \/ /\ pc = "loop" /\ exits'.last = "return"
             /\ settings'.generation_count = settings.generation_count + 1
          \/ /\ clear_accounts
             /\ settings'.generation_count = 0]_vars

C11_Witness ==
  /\ resp.op = "settings_post"
  /\ DOMAIN resp.request = {"main_session_token"}
  /\ settings.main_session_token = "tok"
  /\ settings.local_id = "lid"
  /\ settings.total_gems = 1
  /\ settings.generation_count = 1

\* C12: a record of status failed is inserted only by the 10th attempt of a
\* generate invocation, when that attempt ends in a failure other than a
\* timeout; the record has the email and the failure description of that
\* attempt and the failure result returned carries the same record.  Such a
\* failure on one of the attempts 1..9 inserts nothing and the loop goes on.
C12_FailedRecordOnlyOnFinalAttempt ==
  [][/\ (Len(accounts') > Len(accounts) /\ Head(accounts').status = "failed") =>
          /\ pc = "loop"
          /\ attempt = max_attempts - 1
          /\ calls'.signup = max_attempts
          /\ exits'.last = "raise"
          /\ Tail(accounts') = accounts
          /\ Head(accounts').email = email'
          /\ Head(accounts').error = exits'.err
          /\ pc' = "idle"
          /\ resp'.body.success = FALSE
          /\ resp'.body.error = exits'.err
          /\ resp'.body.account = Head(accounts')
     /\ (pc = "loop" /\ exits'.last = "raise" /\ attempt < max_attempts - 1) =>
          /\ accounts' = accounts
          /\ pc' = "loop"
          /\ attempt' = attempt + 1]_vars

C12_Witness ==
  /\ Returned
  /\ exits.last = "raise"
  /\ Head(accounts).status = "failed"
  /\ Head(accounts).error = "WEAK_PASSWORD"
  /\ before.accounts # << >>
  /\ Head(before.accounts).email # email

\* C13: a generate invocation ends after at most 10 attempts whatever each
\* attempt's outcome is: it makes at most 10 signup calls and at most 10
\* exchange calls, every iteration makes one signup call and at most one
\* exchange call, and an iteration that ends in a collision, a timeout or
\* another failure either moves on to the next attempt or, being the 10th,
\* ends the invocation.
C13_AtMostTenAttempts ==
  [][/\ calls'.signup <= max_attempts
     /\ calls'.exchange <= calls'.signup
     /\ pc' = "loop" => (attempt' < max_attempts /\ calls'.signup = attempt')
     /\ pc = "loop" =>
          /\ calls'.signup = calls.signup + 1
          /\ calls'.exchange \in {calls.exchange, calls.exchange + 1}
          /\ \/ /\ pc' = "loop"
                /\ attempt' = attempt + 1
                /\ exits'.last \in {"continue", "timeout", "raise"}
             \/ /\ pc' = "idle"
                /\ exits'.last = "return" \/ calls'.signup = max_attempts]_vars

C13_Witness ==
  /\ Returned
  /\ calls.signup = max_attempts
  /\ calls.exchange = max_attempts
  /\ exits.last = "timeout"
  /\ resp.body.error = "Max attempts reached"

\* the step ends a generate invocation whose 10 attempts all went by without success
Exhausted ==
  /\ pc = "loop"
  /\ pc' = "idle"
  /\ calls'.signup = max_attempts
  /\ exits'.last # "return"

\* the step ends a generate invocation with the generic failure and no record
GenericFailure ==
  /\ pc = "loop"
  /\ pc' = "idle"
  /\ resp'.body = [success |-> FALSE, error |-> "Max attempts reached"]
  /\ accounts' = accounts

\* the step ends a generate invocation with a new record and a failure carrying it
RecordedFailure ==
  /\ pc = "loop"
  /\ pc' = "idle"
  /\ accounts' # accounts
  /\ Tail(accounts') = accounts
  /\ resp'.body.success = FALSE
  /\ "account" \in DOMAIN resp'.body
  /\ resp'.body.account = Head(accounts')

\* C14 as stated: the generic "max attempts reached" failure without a record
\* is returned exactly when the 10 attempts are used up and the final
\* iteration raised no exception; whenever the final iteration raised an
\* exception, a record is inserted and the failure returned carries it.
C14_AnyExceptionOnFinalRecords ==
  [][/\ GenericFailure <=>
          (Exhausted /\ exits'.last \notin {"raise", "timeout"})
     /\ (Exhausted /\ exits'.last \in {"raise", "timeout"}) =>
          RecordedFailure]_vars

\* C14 amended: the generic failure without a record is returned exactly when
\* the 10 attempts are used up and the final iteration ended in a collision
\* or a timeout; whenever the final iteration raised an exception other than
\* a timeout, a record is inserted and the failure returned carries it.
C14_NonTimeoutExceptionOnFinalRecords ==
  [][/\ GenericFailure <=>
          (Exhausted /\ exits'.last \in {"continue", "timeout"})
     /\ (Exhausted /\ exits'.last = "raise") => RecordedFailure]_vars

C14_Witness ==
  /\ Returned
  /\ calls.signup = max_attempts
  /\ exits.last = "timeout"
  /\ init_json = NoJson
  /\ resp.body = [success |-> FALSE, error |-> "Max attempts reached"]
  /\ accounts = before.accounts

\* the backend answered the poll with code 1 and a data object whose gems is
\* an integer
WellFormed(res) ==
  /\ res.status = "ok"
  /\ Get(res.json, "code", 0) = 1
  /\ "data" \in DOMAIN res.json
  /\ "gems" \in DOMAIN res.json.data
  /\ res.json.data.gems \in Nat

\* C15: a balance poll answered by a well-formed success response with
\* balance n, total_gems being o before the poll, sets total_gems to n and
\* reports gems n, increased = (n > o) and the difference n - o when n > o
\* and 0 otherwise.
C15_PollReportsDelta ==
  [][(/\ get_balance(BalanceResults)
      /\ settings.main_session_token # ""
      /\ WellFormed(resp'.result)) =>
       LET n == resp'.result.json.data.gems
           o == settings.total_gems IN
       /\ settings'.total_gems = n
       /\ DOMAIN resp'.body = {"gems", "increased", "diff"}
       /\ resp'.body.gems = n
       /\ resp'.body.increased = (n > o)
       /\ resp'.body.diff = (IF n > o THEN n - o ELSE 0)
       /\ resp'.body.diff >= 0]_vars

\* C16: every record of the account list has status success or failed and
\* has the fields email, password, sessionToken, gems and timestamp; only
\* records of status failed have an error field.
C16_RecordsHaveAllFields ==
  \A i \in 1..Len(accounts) :
     /\ accounts[i].status \in {"success", "failed"}
     /\ {"email", "password", "sessionToken", "gems", "timestamp"}
          \subseteq DOMAIN accounts[i]
     /\ "error" \in DOMAIN accounts[i] => accounts[i].status = "failed"

\* the signup call answered with a credential token and no collision
YieldsToken(sres) ==
  /\ sres.status = "ok"
  /\ "idToken" \in DOMAIN sres.json
  /\ "error" \notin DOMAIN sres.json

\* C17: an attempt whose signup yields a token makes the exchange call
\* exactly once, with that token and with code equal to the local_id of the
\* settings at that attempt when it is not empty and to the localId of the
\* signup answer otherwise; an attempt whose signup reported a collision,
\* returned no token, failed or timed out makes no exchange call.
C17_ExchangeOncePerToken ==
  [][pc = "loop" =>
       IF YieldsToken(exits'.signup)
         THEN /\ calls'.exchange = calls.exchange + 1
              /\ init_json'.sent
              /\ init_json'.token = exits'.signup.json.idToken
              /\ init_json'.code =
                   IF settings.local_id # "" THEN settings.local_id
                   ELSE IF "localId" \in DOMAIN exits'.signup.json
                     THEN exits'.signup.json.localId
                   ELSE ""
         ELSE /\ calls'.exchange = calls.exchange
              /\ init_json' = NoJson]_vars

C17_Witness ==
  /\ YieldsToken(exits.signup)
  /\ "localId" \in DOMAIN exits.signup.json
  /\ exits.signup.json.localId = "uid"
  /\ settings.local_id = "lid"
  /\ init_json.sent
  /\ init_json.token = "idt"
  /\ init_json.code = "lid"
  /\ calls.exchange = 2

\* C18: nothing excludes two requests from each other.  As long as no thread
\* accesses the accounts or generation_count while another is between two
\* of its accesses, generation_count equals the number of success records
\* whenever no thread is between two accesses; with accesses interleaved
\* the two come apart (C18_Witness: two overlapping increments, one lost).
C18_OnlyOverlapBreaksCount ==
  (~overlapped /\ \A t \in Threads : ~InRegion(threads[t])) =>
     settings.generation_count = CountStatus(accounts, "success")

C18_Witness ==
  /\ \A t \in Threads : threads[t].pc = "idle"
  /\ overlapped
  /\ Len(accounts) = 2
  /\ CountStatus(accounts, "success") = 2
  /\ settings.generation_count = 1

\* the ledger entry of a client, empty when the client has none
Ledger(rl, c) == IF c \in DOMAIN rl THEN rl[c] ELSE << >>

\* C19: with one request handled at a time, the ledger never holds more than
\* 5 timestamps for a client, and no client has more than 5 calls admitted
\* within the trailing 60 seconds; a generate call of a client removes from
\* that client's entry exactly the timestamps that are 60 seconds old or
\* older (and adds the time of the call when it is admitted), and changes
\* no other client's entry; nothing else changes the ledger.
C19_LedgerBoundedAndPrunedPerClient ==
  [][/\ \A c \in Clients :
          /\ Len(Ledger(rate_limits', c)) <= 5
          /\ Len(admitted'[c]) <= 5
     /\ \A ip \in Clients : generate_account(ip) =>
          LET old == Ledger(rate_limits, ip)
              new == Ledger(rate_limits', ip)
              young == {i \in 1..Len(old) : now - old[i] < 60}
              kept == SubSeq(new, 1, Cardinality(young)) IN
          /\ Len(new) \in {Cardinality(young), Cardinality(young) + 1}
          /\ \A i \in young :
                kept[Cardinality({j \in young : j <= i})] = old[i]
          /\ Len(new) = Cardinality(young) + 1 => new[Len(new)] = now
          /\ Len(new) = Cardinality(young) + 1 <=> pc' = "loop"
          /\ \A c \in Clients \ {ip} :
                Ledger(rate_limits', c) = Ledger(rate_limits, c)
     /\ rate_limits' # rate_limits =>
          \E ip \in Clients : generate_account(ip)]_vars

C19_Witness ==
  /\ now = 2 * FineStep
  /\ pc = "loop"
  /\ \E c1, c2 \in Clients :
       /\ c1 # c2
       /\ Len(Ledger(rate_limits, c1)) = 5
       /\ rate_limits[c1][1] = FineStep
       /\ rate_limits[c1][5] = now
       /\ Ledger(rate_limits, c2) = <<0>>

\* C20: a generate call that the rate limiter rejects adds no timestamp to
\* the ledger (the client's entry keeps its timestamps younger than 60
\* seconds and nothing else) and leaves the accounts and the settings as
\* they are; and a call of a client whose entry holds 5 or more timestamps
\* of which the oldest of the last 5 is at least 60 seconds old is admitted.
C20_RejectedCallsLeaveNoTrace ==
  [][\A ip \in Clients : generate_account(ip) =>
       LET old == Ledger(rate_limits, ip)
           new == Ledger(rate_limits', ip) IN
       /\ resp'.status = 429 =>
            /\ new = SelectSeq(old, LAMBDA x : now - x < 60)
            /\ Len(new) <= Len(old)
            /\ accounts' = accounts
            /\ settings' = settings
            /\ admitted' = admitted
            /\ pc' = "idle"
       /\ (Len(old) >= 5 /\ now - old[Len(old) - 4] >= 60) =>
            /\ resp'.status # 429
            /\ pc' = "loop"
            /\ new[Len(new)] = now]_vars

C20_Witness ==
  /\ pc = "loop"
  /\ attempt = 0
  /\ resp.op = "generate"
  /\ resp.status = 0
  /\ resp.pruned = 1
  /\ \E ip \in Clients :
       /\ Len(Ledger(rate_limits, ip)) = 5
       /\ rate_limits[ip][1] = FineStep
       /\ rate_limits[ip][5] = now
       /\ admitted[ip] = rate_limits[ip]

====
